---- MODULE Spec2Model ----
(***************************************************************************)
(* Model of currency_exch_privatbank.py: ExchangeRateFetcher (concurrent   *)
(* per-date fetches joined by asyncio.gather, projection of the wanted     *)
(* currencies) and WebSocketChat (one handler coroutine per connection,    *)
(* the `exchange` command, the exchange.log audit file).                   *)
(*                                                                         *)
(* One action is one run of a coroutine between two suspension points      *)
(* (await).  Text is modelled as text: an inbound message is a sequence of *)
(* one-character strings, what the server writes is a string.              *)
(***************************************************************************)
EXTENDS Integers, Sequences, FiniteSets, TLC

(***************************************************************************)
(* Bounds of the model.                                                    *)
(***************************************************************************)
\* largest accepted day count a client sends
MaxBatch == 2
\* lines read by the server, over all connections
MaxLines == 2

\* the websocket objects of the connections: two, the fewest that show one
\* connection beside another
Conns == {"ws1", "ws2"}

(***************************************************************************)
(* Program constants.                                                      *)
(***************************************************************************)
\* `if days > 10`
MaxDays == 10

API_URL == "https://api.privatbank.ua/p24api/exchange_rates?json&date="

ErrorText == "Error: Maximum number of days is 10"

\* datetime.now() at the time of the run: 2 March of a leap year, so that
\* counting back crosses a month end and 29 February; the day does not
\* change while the model runs
Today == [day |-> 2, month |-> 3, year |-> 2024]

(***************************************************************************)
(* Text helpers.                                                           *)
(***************************************************************************)
Whitespace == {" ", "\t", "\n"}

DigitChars == {"0", "1", "2", "3", "4", "5", "6", "7", "8", "9"}

DigitVal(ch) == CHOOSE d \in 0..9 : ToString(d) = ch

\* the characters of a sequence as one string
RECURSIVE Str(_)
Str(chars) == IF chars = <<>> THEN "" ELSE Head(chars) \o Str(Tail(chars))

\* str.split() with no argument: runs of whitespace separate the words,
\* leading and trailing whitespace gives no empty word
RECURSIVE SplitFrom(_, _, _, _)
SplitFrom(s, i, word, out) ==
    IF i > Len(s)
    THEN IF word = <<>> THEN out ELSE Append(out, word)
    ELSE IF s[i] \in Whitespace
         THEN SplitFrom(s, i + 1, <<>>, IF word = <<>> THEN out ELSE Append(out, word))
         ELSE SplitFrom(s, i + 1, Append(word, s[i]), out)

Split(s) == SplitFrom(s, 1, <<>>, <<>>)

\* int(token) of a whitespace-free token over signs, digits and letters: an
\* optional sign and decimal digits; anything else raises ValueError
IsIntLiteral(tok) ==
    LET body == IF tok # <<>> /\ Head(tok) \in {"-", "+"} THEN Tail(tok) ELSE tok
    IN  body # <<>> /\ \A i \in 1..Len(body) : body[i] \in DigitChars

RECURSIVE DigitsValue(_, _)
DigitsValue(ds, acc) ==
    IF ds = <<>> THEN acc ELSE DigitsValue(Tail(ds), 10 * acc + DigitVal(Head(ds)))

ParseInt(tok) ==
    IF Head(tok) = "-" THEN 0 - DigitsValue(Tail(tok), 0)
    ELSE IF Head(tok) = "+" THEN DigitsValue(Tail(tok), 0)
    ELSE DigitsValue(tok, 0)

\* "\n".join(lines)
RECURSIVE JoinLines(_)
JoinLines(lines) ==
    IF lines = <<>> THEN ""
    ELSE IF Len(lines) = 1 THEN lines[1]
    ELSE lines[1] \o "\n" \o JoinLines(Tail(lines))

\* repr of a list of str, as an f-string prints `params`
RECURSIVE ReprItems(_)
ReprItems(params) ==
    IF params = <<>> THEN ""
    ELSE IF Len(params) = 1 THEN "'" \o Str(params[1]) \o "'"
    ELSE "'" \o Str(params[1]) \o "', " \o ReprItems(Tail(params))

ReprList(params) == "[" \o ReprItems(params) \o "]"

\* str() of a float with one decimal, the rate held in tenths
FormatFloat(tenths) == ToString(tenths \div 10) \o "." \o ToString(tenths % 10)

(***************************************************************************)
(* Dates.                                                                  *)
(***************************************************************************)
IsLeap(y) == (y % 4 = 0 /\ y % 100 # 0) \/ y % 400 = 0

DaysInMonth(m, y) ==
    IF m = 2 THEN (IF IsLeap(y) THEN 29 ELSE 28)
    ELSE IF m \in {4, 6, 9, 11} THEN 30 ELSE 31

PrevDay(d) ==
    IF d.day > 1 THEN [d EXCEPT !.day = d.day - 1]
    ELSE IF d.month > 1
         THEN [day |-> DaysInMonth(d.month - 1, d.year), month |-> d.month - 1, year |-> d.year]
         ELSE [day |-> 31, month |-> 12, year |-> d.year - 1]

\* date - timedelta(days=i)
RECURSIVE MinusDays(_, _)
MinusDays(d, i) == IF i <= 0 THEN d ELSE MinusDays(PrevDay(d), i - 1)

Pad2(n) == IF n < 10 THEN "0" \o ToString(n) ELSE ToString(n)

\* date.strftime("%d.%m.%Y")
StrFTime(d) == Pad2(d.day) \o "." \o Pad2(d.month) \o "." \o ToString(d.year)

\* API_URL.format(date.strftime("%d.%m.%Y"))
RequestUrl(d) == API_URL \o StrFTime(d)

(***************************************************************************)
(* The remote rate API and the values it returns.                          *)
(***************************************************************************)
\* Python's None: the result of a fetch that failed with aiohttp.ClientError
None == [kind |-> "None"]

\* `if entry:`
Truthy(entry) == entry.kind # "None"

\* the quotes the remote holds for one date
Quotes(d) ==
    << [currency |-> "USD", saleRate |-> 390 + d.day],
       [currency |-> "EUR", saleRate |-> 420 + d.day],
       [currency |-> "GBP", saleRate |-> 500] >>

\* how the remote answers: "plain" echoes the requested date; "late" is a day
\* behind: it answers the request of today with the date of the day before
\* and no quotes yet, and its other answers repeat a currency
ApiVariants == {"plain", "late"}

\* the JSON body of a 200 answer to the request for date d; it has the
\* fields extract_rates reads
RemoteBody(variant, d) ==
    [kind |-> "dict",
     date |-> IF variant = "late" /\ d = Today THEN StrFTime(PrevDay(d)) ELSE StrFTime(d),
     exchangeRate |->
        IF variant = "late"
        THEN IF d = Today THEN <<>>
             ELSE Quotes(d) \o << [currency |-> "USD", saleRate |-> 400] >>
        ELSE Quotes(d)]

\* what can happen to one GET: a 200 with a JSON body, a transport error, a
\* non-2xx status, a body of the wrong content type, a body that is no JSON
Outcomes == {"ok", "transport", "status", "content_type", "bad_json"}

\* raise_for_status and the transport raise subclasses of aiohttp.ClientError,
\* and so does response.json() on a wrong content type
RaisesClientError(outcome) == outcome \in {"transport", "status", "content_type"}

\* --currencies, as given on the command line
CurrencyLists == {<<"USD", "EUR">>, <<"GBP">>}

(***************************************************************************)
(* ExchangeRateFetcher.                                                    *)
(***************************************************************************)
\* one entry of `tasks`: the coroutine fetch_exchange_rate(session, date)
NewTask(date) == [date |-> date, state |-> "pending", result |-> None]

\* fetch_exchange_rate run to its end: the JSON body; None on ClientError;
\* any other exception (json.JSONDecodeError) leaves the coroutine
fetch_exchange_rate(task, variant, outcome) ==
    IF outcome = "ok"
    THEN [task EXCEPT !.state = "returned", !.result = RemoteBody(variant, task.date)]
    ELSE IF RaisesClientError(outcome)
         THEN [task EXCEPT !.state = "returned", !.result = None]
         ELSE [task EXCEPT !.state = "raised"]

\* mutant: the dates start one day late
fetch_last_days_FromYesterday(days) ==
    [i \in 1..days |-> NewTask(MinusDays(Today, i))]

\* the tasks fetch_last_days builds: one per i in range(days)
fetch_last_days(days) ==
    [i \in 1..days |-> NewTask(MinusDays(Today, i - 1))]

\* a dict as the sequence of its (key, value) pairs in insertion order
DictKeys(d) == {d[i][1] : i \in 1..Len(d)}

\* mutant: a key already there keeps its first value
DictPut_KeepFirst(d, k, v) ==
    IF k \in DictKeys(d) THEN d ELSE Append(d, <<k, v>>)

\* d[k] = v: a new key goes last, a key already there keeps its place
DictPut(d, k, v) ==
    IF k \in DictKeys(d)
    THEN [i \in 1..Len(d) |-> IF d[i][1] = k THEN <<k, v>> ELSE d[i]]
    ELSE Append(d, <<k, v>>)

InList(x, list) == \E i \in 1..Len(list) : list[i] = x

\* mutant: the comprehension without its filter
Wanted_All(rate, wanted) == TRUE

\* the filter of the dict comprehension
Wanted(rate, wanted) == InList(rate.currency, wanted)

\* {rate["currency"]: rate["saleRate"] for rate in entry["exchangeRate"] if ...}
RECURSIVE SaleRates(_, _, _)
SaleRates(entries, wanted, acc) ==
    IF entries = <<>> THEN acc
    ELSE SaleRates(Tail(entries), wanted,
                   IF Wanted(Head(entries), wanted)
                   THEN DictPut(acc, Head(entries).currency, Head(entries).saleRate)
                   ELSE acc)

RECURSIVE ExtractFrom(_, _, _)
ExtractFrom(data, wanted, acc) ==
    IF data = <<>> THEN acc
    ELSE ExtractFrom(Tail(data), wanted,
                     IF Truthy(Head(data))
                     THEN DictPut(acc, Head(data).date,
                                  SaleRates(Head(data).exchangeRate, wanted, <<>>))
                     ELSE acc)

extract_rates(data, wanted) == ExtractFrom(data, wanted, <<>>)

(***************************************************************************)
(* WebSocketChat: the text of a response and of an audit line.             *)
(***************************************************************************)
RECURSIVE RateLines(_)
RateLines(rate) ==
    IF rate = <<>> THEN <<>>
    ELSE << rate[1][1] \o ": " \o FormatFloat(rate[1][2]) >> \o RateLines(Tail(rate))

\* the list `response` of exchange_command
RECURSIVE ResponseLines(_)
ResponseLines(rates) ==
    IF rates = <<>> THEN <<>>
    ELSE << "Rates on " \o rates[1][1] \o ":" >> \o RateLines(rates[1][2])
         \o ResponseLines(Tail(rates))

Response(rates) == JoinLines(ResponseLines(rates))

\* str(datetime.now()), to the day
Now == ToString(Today.year) \o "-" \o Pad2(Today.month) \o "-" \o Pad2(Today.day)

LogLine(params) ==
    "Command 'exchange' executed with params " \o ReprList(params) \o " at " \o Now \o "\n"

(***************************************************************************)
(* The lines clients send.                                                 *)
(***************************************************************************)
RECURSIVE NatChars(_)
NatChars(n) == IF n < 10 THEN << ToString(n) >> ELSE NatChars(n \div 10) \o << ToString(n % 10) >>

IntChars(n) == IF n < 0 THEN << "-" >> \o NatChars(0 - n) ELSE NatChars(n)

ExchangeWord == << "e", "x", "c", "h", "a", "n", "g", "e" >>

ExchangeLine(n) == ExchangeWord \o << " " >> \o IntChars(n)

\* the day counts clients ask for: negative, zero, accepted, too many
AskedDays == {-1, 0, 1, MaxBatch, MaxDays + 1}

\* the empty line, a blank line, another command, `exchange` alone, a day
\* count that is no number, and `exchange N`
Lines ==
    { <<>>, << " " >>, << "r", "a", "t", "e", "s" >>, ExchangeWord,
      ExchangeWord \o << " ", "a", "b", "c" >> }
    \cup { ExchangeLine(n) : n \in AskedDays }

(***************************************************************************)
(* State.                                                                  *)
(***************************************************************************)
VARIABLES
    currencies,  \* fetcher.currencies
    api,         \* how the remote answers
    clients,     \* WebSocketChat.clients
    pc,          \* where each connection's handler coroutine is suspended
    params,      \* exchange_command: `params`
    days,        \* exchange_command: `days`
    tasks,       \* fetch_last_days: the tasks handed to asyncio.gather
    rates,       \* exchange_command: `rates`
    resp,        \* the text exchange_command is about to send
    sent,        \* the messages sent to the client since its last line was read
    log,         \* the lines of exchange.log
    nlines,      \* lines read so far, over all connections
    main,        \* where the `__main__` block is
    argdays,     \* args.days, kept as fetcher.days
    batch,       \* the tasks of the one-shot fetch of main()
    stdout       \* the lines printed

vars == << currencies, api, clients, pc, params, days, tasks, rates,
           resp, sent, log, nlines, main, argdays, batch, stdout >>

\* the variables of the `__main__` block
mainvars == << main, argdays, batch, stdout >>

\* --days, as given on the command line
ArgDays == {0, 1, MaxDays + 1}

\* mutant: the limit of the start off by one
ArgsTooManyDays_OffByOne(d) == d > MaxDays + 1

\* `if args.days > 10` of the `__main__` block
ArgsTooManyDays(d) == d > MaxDays

\* mutant: no default of one day
DaysOf_NoDefault(ps) == IF ps # <<>> THEN ParseInt(ps[1]) ELSE 0

\* `days = int(params[0]) if params else 1`
DaysOf(ps) == IF ps # <<>> THEN ParseInt(ps[1]) ELSE 1

\* mutant: the limit off by one
TooManyDays_OffByOne(d) == d > MaxDays + 1

\* `if days > 10`
TooManyDays(d) == d > MaxDays

\* `command, *params = message.split()` needs at least one word
UnpackFails(line) == Split(line) = <<>>

\* `if command == "exchange"`
IsExchange(line) == Str(Head(Split(line))) = "exchange"

Running == {"read", "gather", "send", "log"}

Ended == {"closed", "crashed"}

\* WebSocketChat.__init__, and no connection yet
NoConnection ==
    /\ clients = {}
    /\ pc = [c \in Conns |-> "idle"]
    /\ params = [c \in Conns |-> <<>>]
    /\ days = [c \in Conns |-> 0]
    /\ tasks = [c \in Conns |-> <<>>]
    /\ rates = [c \in Conns |-> <<>>]
    /\ resp = [c \in Conns |-> ""]
    /\ sent = [c \in Conns |-> <<>>]
    /\ log = <<>>
    /\ nlines = 0

\* the server as chat.start() finds it, after a start with --days 1 whose
\* one-shot fetch printed nothing
Init ==
    /\ currencies \in CurrencyLists
    /\ api \in ApiVariants
    /\ NoConnection
    /\ main = "serve"
    /\ argdays = 1
    /\ batch = <<>>
    /\ stdout = <<>>

\* the program as the `__main__` block finds it, the arguments parsed
InitMain ==
    /\ currencies = << "USD", "EUR" >>
    /\ api \in ApiVariants
    /\ NoConnection
    /\ main = "start"
    /\ argdays \in ArgDays
    /\ batch = <<>>
    /\ stdout = <<>>

\* the locals of exchange_command once it has returned or been left
Forget(c) ==
    /\ params' = [params EXCEPT ![c] = <<>>]
    /\ days' = [days EXCEPT ![c] = 0]
    /\ tasks' = [tasks EXCEPT ![c] = <<>>]
    /\ rates' = [rates EXCEPT ![c] = <<>>]
    /\ resp' = [resp EXCEPT ![c] = ""]

\* mutant: the handler that ends empties the registry
Ends_ClearsRegistry(c, how) ==
    /\ pc' = [pc EXCEPT ![c] = how]
    /\ clients' = {}
    /\ Forget(c)

\* mutant: the registry is cleaned where ConnectionClosed is caught, not
\* in a `finally`
Ends_RemoveOnCloseOnly(c, how) ==
    /\ pc' = [pc EXCEPT ![c] = how]
    /\ clients' = IF how = "closed" THEN clients \ {c} ELSE clients
    /\ Forget(c)

\* the handler ends: `finally: self.clients.remove(websocket)`.
\* how = "closed": the iteration ended or ConnectionClosed was caught;
\* how = "crashed": another exception left the handler
Ends(c, how) ==
    /\ pc' = [pc EXCEPT ![c] = how]
    /\ clients' = clients \ {c}
    /\ Forget(c)

\* a client connects: the handler starts, `self.clients.add(websocket)`
Connect(c) ==
    /\ main = "serve"
    /\ pc[c] = "idle"
    /\ pc' = [pc EXCEPT ![c] = "read"]
    /\ clients' = clients \cup {c}
    /\ UNCHANGED << currencies, api, params, days, tasks, rates, resp, sent, log, nlines >>

\* `async for message in websocket` finds the connection gone: the client
\* closed it, or the transport failed
Disconnect(c) ==
    /\ pc[c] = "read"
    /\ Ends(c, "closed")
    /\ UNCHANGED << currencies, api, sent, log, nlines >>

\* exchange_command up to its first await: int() raises ValueError on a
\* parameter that is no number; too many days go to the send of the error
\* text; anything else starts the batch of fetch_last_days
exchange_command(c, ps) ==
    IF ps # <<>> /\ ~IsIntLiteral(ps[1])
    THEN Ends(c, "crashed")
    ELSE /\ params' = [params EXCEPT ![c] = ps]
         /\ days' = [days EXCEPT ![c] = DaysOf(ps)]
         /\ UNCHANGED << clients, rates >>
         /\ IF TooManyDays(DaysOf(ps))
            THEN /\ resp' = [resp EXCEPT ![c] = ErrorText]
                 /\ pc' = [pc EXCEPT ![c] = "send"]
                 /\ UNCHANGED tasks
            ELSE /\ tasks' = [tasks EXCEPT ![c] = fetch_last_days(DaysOf(ps))]
                 /\ pc' = [pc EXCEPT ![c] = "gather"]
                 /\ UNCHANGED resp

\* mutant: one handler at a time: no line is taken while a command of
\* another connection is in progress
AtRead_OneAtATime(c) ==
    /\ pc[c] = "read"
    /\ \A d \in Conns \ {c} : pc[d] \notin {"gather", "send", "log"}

\* the handler of c waits in `async for message in websocket`; each
\* connection has its own handler coroutine
AtRead(c) == pc[c] = "read"

\* the handler reads one line and runs to its next await
Read(c, line) ==
    /\ AtRead(c)
    /\ nlines < MaxLines
    /\ nlines' = nlines + 1
    /\ IF UnpackFails(line)
       THEN Ends(c, "crashed")
       ELSE IF IsExchange(line)
            THEN exchange_command(c, Tail(Split(line)))
            ELSE UNCHANGED << pc, clients, params, days, tasks, rates, resp >>
    /\ sent' = [sent EXCEPT ![c] = <<>>]
    /\ UNCHANGED << currencies, api, log >>

AllReturned(c) == \A i \in 1..Len(tasks[c]) : tasks[c][i].state = "returned"

SomeRaised(c) == \E i \in 1..Len(tasks[c]) : tasks[c][i].state = "raised"

\* mutant: the results last task first
Results_Reversed(c) ==
    [i \in 1..Len(tasks[c]) |-> tasks[c][Len(tasks[c]) + 1 - i].result]

\* the list gather returns: the results in the order of the tasks
Results(c) == [i \in 1..Len(tasks[c]) |-> tasks[c][i].result]

\* one GET of the batch settles, while gather still waits
Settle(c, i, outcome) ==
    /\ pc[c] = "gather"
    /\ ~SomeRaised(c)
    /\ i \in 1..Len(tasks[c])
    /\ tasks[c][i].state = "pending"
    /\ tasks' = [tasks EXCEPT ![c][i] = fetch_exchange_rate(tasks[c][i], api, outcome)]
    /\ UNCHANGED << currencies, api, clients, pc, params, days, rates, resp,
                    sent, log, nlines >>

\* `await asyncio.gather(*tasks)` returns: extract_rates, the response built
GatherDone(c) ==
    /\ pc[c] = "gather"
    /\ AllReturned(c)
    /\ rates' = [rates EXCEPT ![c] = extract_rates(Results(c), currencies)]
    /\ resp' = [resp EXCEPT ![c] = Response(extract_rates(Results(c), currencies))]
    /\ tasks' = [tasks EXCEPT ![c] = <<>>]
    /\ pc' = [pc EXCEPT ![c] = "send"]
    /\ UNCHANGED << currencies, api, clients, params, days, sent, log, nlines >>

\* `await asyncio.gather(*tasks)` raises the exception of a task: the session
\* is closed under the tasks still pending, and nothing catches the exception
GatherRaise(c) ==
    /\ pc[c] = "gather"
    /\ SomeRaised(c)
    /\ Ends(c, "crashed")
    /\ UNCHANGED << currencies, api, sent, log, nlines >>

\* mutant: exchange_command returns after the send, the audit line is lost
AfterSend_NoLog(c) == "read"

\* where exchange_command goes after `await websocket.send(...)`: `return`
\* after the error text, the audit line after a response
AfterSend(c) == IF TooManyDays(days[c]) THEN "read" ELSE "log"

\* `await websocket.send(...)` on a connection that is open
Send(c) ==
    /\ pc[c] = "send"
    /\ sent' = [sent EXCEPT ![c] = Append(@, resp[c])]
    /\ pc' = [pc EXCEPT ![c] = AfterSend(c)]
    /\ IF AfterSend(c) = "read"
       THEN Forget(c)
       ELSE /\ rates' = [rates EXCEPT ![c] = <<>>]
            /\ resp' = [resp EXCEPT ![c] = ""]
            /\ UNCHANGED << params, days, tasks >>
    /\ UNCHANGED << currencies, api, clients, log, nlines >>

\* `await websocket.send(...)` on a connection the client has closed:
\* ConnectionClosed, which the handler catches
SendClosed(c) ==
    /\ pc[c] = "send"
    /\ Ends(c, "closed")
    /\ UNCHANGED << currencies, api, sent, log, nlines >>

\* `async with AIOFile('exchange.log', 'a')`: one line appended
LogAppend(c) ==
    /\ pc[c] = "log"
    /\ log' = Append(log, LogLine(params[c]))
    /\ pc' = [pc EXCEPT ![c] = "read"]
    /\ Forget(c)
    /\ UNCHANGED << currencies, api, clients, sent, nlines >>

(***************************************************************************)
(* The `__main__` block.                                                   *)
(***************************************************************************)
servervars == << clients, pc, params, days, tasks, rates, resp, sent, log, nlines >>

\* `if args.days > 10`: the error is printed and the program ends; else the
\* fetcher is built and main() starts its batch with fetcher.days
Start ==
    /\ main = "start"
    /\ IF ArgsTooManyDays(argdays)
       THEN /\ stdout' = Append(stdout, ErrorText)
            /\ main' = "exit"
            /\ UNCHANGED batch
       ELSE /\ batch' = fetch_last_days(argdays)
            /\ main' = "oneshot"
            /\ UNCHANGED stdout
    /\ UNCHANGED << currencies, api, argdays, servervars >>

\* one GET of the one-shot batch settles
OneShotSettle(i, outcome) ==
    /\ main = "oneshot"
    /\ \A j \in 1..Len(batch) : batch[j].state # "raised"
    /\ i \in 1..Len(batch)
    /\ batch[i].state = "pending"
    /\ batch' = [batch EXCEPT ![i] = fetch_exchange_rate(batch[i], api, outcome)]
    /\ UNCHANGED << currencies, api, main, argdays, stdout, servervars >>

\* main() prints the rates, asyncio.run returns, chat.start() serves
OneShotDone ==
    /\ main = "oneshot"
    /\ \A j \in 1..Len(batch) : batch[j].state = "returned"
    /\ stdout' = stdout \o ResponseLines(
                     extract_rates([j \in 1..Len(batch) |-> batch[j].result], currencies))
    /\ batch' = <<>>
    /\ main' = "serve"
    /\ UNCHANGED << currencies, api, argdays, servervars >>

\* an exception of a task leaves asyncio.run(main(...)): the program dies
OneShotRaise ==
    /\ main = "oneshot"
    /\ \E j \in 1..Len(batch) : batch[j].state = "raised"
    /\ batch' = <<>>
    /\ main' = "died"
    /\ UNCHANGED << currencies, api, argdays, stdout, servervars >>

Next ==
    \E c \in Conns :
        \/ Connect(c) /\ UNCHANGED mainvars
        \/ Disconnect(c) /\ UNCHANGED mainvars
        \/ \E line \in Lines : Read(c, line) /\ UNCHANGED mainvars
        \/ \E i \in 1..MaxDays, outcome \in Outcomes :
              Settle(c, i, outcome) /\ UNCHANGED mainvars
        \/ GatherDone(c) /\ UNCHANGED mainvars
        \/ GatherRaise(c) /\ UNCHANGED mainvars
        \/ Send(c) /\ UNCHANGED mainvars
        \/ SendClosed(c) /\ UNCHANGED mainvars
        \/ LogAppend(c) /\ UNCHANGED mainvars

Spec == Init /\ [][Next]_vars

\* the event loop runs every handler that can go on, and every GET of a
\* batch settles in the end; when a client connects, sends a line or
\* leaves is up to the client
Fairness ==
    \A c \in Conns :
        /\ WF_vars((\E i \in 1..MaxDays, outcome \in Outcomes : Settle(c, i, outcome))
                      /\ UNCHANGED mainvars)
        /\ WF_vars(GatherDone(c) /\ UNCHANGED mainvars)
        /\ WF_vars(GatherRaise(c) /\ UNCHANGED mainvars)
        /\ WF_vars((Send(c) \/ SendClosed(c)) /\ UNCHANGED mainvars)
        /\ WF_vars(LogAppend(c) /\ UNCHANGED mainvars)

\* the server under fair scheduling
FairSpec == Init /\ [][Next]_vars /\ Fairness

NextMain ==
    \/ Start
    \/ \E i \in 1..MaxDays, outcome \in Outcomes : OneShotSettle(i, outcome)
    \/ OneShotDone
    \/ OneShotRaise
    \/ Next

\* the program from its start
SpecMain == InitMain /\ [][NextMain]_vars

(***************************************************************************)
(* Reference values the claims are checked against.                        *)
(***************************************************************************)
\* the dates today, today-1, ... as the request carries them
ExpectedDates == << "02.03.2024", "01.03.2024", "29.02.2024", "28.02.2024", "27.02.2024" >>

\* the response to a one-day batch, by the remote, the wanted currencies and
\* whether the fetch of today gave a record
ExpectedOneDay(variant, wanted, ok) ==
    IF ~ok THEN ""
    ELSE IF variant = "late" THEN "Rates on 01.03.2024:"
    ELSE IF wanted = << "USD", "EUR" >> THEN "Rates on 02.03.2024:\nUSD: 39.2\nEUR: 42.2"
    ELSE "Rates on 02.03.2024:\nGBP: 50.0"

\* a line whose first word is not `exchange`, the line without a word included
NotExchange(line) == Split(line) = <<>> \/ Str(Head(Split(line))) # "exchange"

(***************************************************************************)
(* Claims.                                                                 *)
(***************************************************************************)

\* C1: a fetch batch is only ever started with a day count d, 1 <= d <= 10,
\* whatever integer the `exchange` command carries (zero and negative ones
\* included).
C1_BatchDaysInRange ==
    \A c \in Conns : pc[c] = "gather" => (1 <= days[c] /\ days[c] <= MaxDays)

\* C2: an `exchange N` with N > 10 starts no fetch and appends no audit line;
\* its only message is the text "Error: Maximum number of days is 10", sent
\* once, after which the handler reads the next line of the same connection
\* (on a connection the client has closed by then the send raises
\* ConnectionClosed and the handler ends, still without fetch or audit line).
C2_TooManyDaysRejected ==
    [][\A c \in Conns :
          /\ (pc[c] = "read" /\ days'[c] > MaxDays) =>
                /\ pc'[c] = "send"
                /\ resp'[c] = ErrorText
                /\ tasks'[c] = <<>>
                /\ sent'[c] = <<>>
                /\ log' = log
          /\ (pc[c] = "send" /\ days[c] > MaxDays /\ pc'[c] # "send") =>
                /\ tasks'[c] = <<>>
                /\ log' = log
                /\ \/ /\ sent'[c] = << ErrorText >>
                      /\ pc'[c] = "read"
                      /\ c \in clients'
                   \/ /\ sent'[c] = <<>>
                      /\ pc'[c] = "closed"
          /\ days[c] > MaxDays => pc[c] = "send"
      ]_vars

\* C2 witness: the error text, and nothing else, has been sent for a line;
\* the handler is back at reading and the audit log is empty.
C2_Witness ==
    \E c \in Conns : pc[c] = "read" /\ sent[c] = << ErrorText >> /\ log = <<>>

\* C3: a fetch that fails in any way (transport error, non-2xx status, body
\* of the wrong content type, body that is no JSON) returns an absent result
\* for its date only: the other fetches of the batch are untouched, the
\* batch goes on, and fetch_last_days ends by returning, never by raising.
C3_FailedFetchIsAbsent ==
    [][\A c \in Conns :
          /\ \A i \in 1..MaxDays : \A outcome \in Outcomes \ {"ok"} :
                Settle(c, i, outcome) =>
                    /\ tasks'[c][i].state = "returned"
                    /\ tasks'[c][i].result = None
                    /\ \A j \in 1..Len(tasks[c]) : j # i => tasks'[c][j] = tasks[c][j]
                    /\ pc'[c] = "gather"
          /\ (pc[c] = "gather" /\ pc'[c] # "gather") => pc'[c] = "send"
      ]_vars

\* C4: join-all: the await of a batch ends only when every fetch of the
\* batch has settled; no fetch is left behind because another one failed.
C4_JoinAll ==
    [][\A c \in Conns :
          (pc[c] = "gather" /\ pc'[c] # "gather") =>
              \A i \in 1..Len(tasks[c]) : tasks[c][i].state # "pending"
      ]_vars

\* C5: commands of one connection are serialized: the handler gets back to
\* reading only from the connect, from a line it ignored, from the send of
\* the error text, or from the append of the audit line of a command whose
\* response has been sent; and it reads a line only when no command of the
\* connection is in progress.
C5_Serialized ==
    [][\A c \in Conns :
          /\ (pc'[c] = "read" /\ pc[c] # "read") =>
                \/ pc[c] = "idle"
                \/ /\ pc[c] = "send"
                   /\ days[c] > MaxDays
                   /\ sent'[c] = << ErrorText >>
                \/ /\ pc[c] = "log"
                   /\ Len(sent[c]) = 1
                   /\ log' = Append(log, LogLine(params[c]))
          /\ pc[c] = "log" => Len(sent[c]) = 1
          /\ \A line \in Lines :
                Read(c, line) =>
                    /\ pc[c] = "read"
                    /\ tasks[c] = <<>> /\ resp[c] = "" /\ params[c] = <<>>
      ]_vars

\* C5 witness: a connection, alone, is in its second command: the first one
\* has been answered and logged.
C5_Witness ==
    \E c \in Conns :
        /\ pc[c] \in {"gather", "send", "log"}
        /\ Len(log) = 1
        /\ \A d \in Conns \ {c} : pc[d] = "idle"

\* C6: the end of one connection's handler (disconnect, transport error, an
\* exception while handling a command) removes that connection, and only
\* it, from the registry and changes nothing of any other connection or of
\* the log; whatever the other connections did, the response to a one-day
\* batch is the right one and is what the client is sent.
C6_FailureIsLocal ==
    [][\A c \in Conns :
          /\ (pc[c] \in Running /\ pc'[c] \in Ended) =>
                /\ c \in clients
                /\ clients' = clients \ {c}
                /\ log' = log
                /\ \A d \in Conns \ {c} :
                      /\ pc'[d] = pc[d]
                      /\ params'[d] = params[d] /\ days'[d] = days[d]
                      /\ tasks'[d] = tasks[d] /\ rates'[d] = rates[d]
                      /\ resp'[d] = resp[d] /\ sent'[d] = sent[d]
          /\ (pc[c] = "gather" /\ pc'[c] = "send" /\ days[c] = 1) =>
                resp'[c] = ExpectedOneDay(api, currencies, Truthy(tasks[c][1].result))
          /\ (pc[c] = "send" /\ pc'[c] = "log") => sent'[c] = << resp[c] >>
      ]_vars

\* C6 witness: one handler was ended by an exception, and the other
\* connection, the only one registered, has its response to `exchange 1`.
C6_Witness ==
    \E c, d \in Conns :
        /\ pc[c] = "crashed"
        /\ clients = {d}
        /\ pc[d] = "log"
        /\ days[d] = 1
        /\ sent[d] = << ExpectedOneDay(api, currencies, TRUE) >>

\* C7: a line that is no `exchange` command (another first word, no word at
\* all) is ignored: nothing sent, no fetch, no audit line, and the
\* connection stays registered and at reading.
C7_OtherLinesIgnored ==
    [][\A c \in Conns : \A line \in Lines :
          (Read(c, line) /\ NotExchange(line)) =>
              /\ pc'[c] = "read"
              /\ c \in clients'
              /\ sent'[c] = <<>>
              /\ tasks'[c] = <<>>
              /\ log' = log
      ]_vars

\* C8: one audit line per executed command: a command whose batch ran goes
\* on to the send of its response, then to the append of exactly one line;
\* the log changes by such an append only.
C8_OneLinePerCommand ==
    [][/\ \A c \in Conns :
             /\ (pc[c] = "gather" /\ pc'[c] # "gather") => pc'[c] = "send"
             /\ (pc[c] = "send" /\ ~TooManyDays(days[c]) /\ sent'[c] # sent[c]) =>
                    pc'[c] = "log"
             /\ (pc[c] = "log" /\ pc'[c] # "log") =>
                    log' = Append(log, LogLine(params[c]))
       /\ log' # log =>
             \E c \in Conns : pc[c] = "log" /\ log' = Append(log, LogLine(params[c]))
      ]_vars

\* C9: a batch for `days` in 1..10 has exactly `days` fetches, the i-th for
\* the date i-1 days before today, each settled once; the mapping built from
\* it has at most `days` entries, each key being the date of a record that a
\* fetch of the batch returned.
C9_OneFetchPerDate ==
    [][\A c \in Conns :
          (pc[c] = "gather" /\ days[c] >= 1) =>
              /\ Len(tasks[c]) = days[c]
              /\ \A i \in 1..Len(tasks[c]) :
                    RequestUrl(tasks[c][i].date) = API_URL \o ExpectedDates[i]
              /\ \A i \in 1..Len(tasks[c]) :
                    tasks[c][i].state # "pending" =>
                        (pc'[c] = "gather" => tasks'[c][i] = tasks[c][i])
              /\ pc'[c] = "send" =>
                    /\ Len(rates'[c]) <= days[c]
                    /\ \A k \in DictKeys(rates'[c]) :
                          \E i \in 1..Len(tasks[c]) :
                              /\ Truthy(tasks[c][i].result)
                              /\ tasks[c][i].result.date = k
      ]_vars

\* C9 witness: a batch of more than one day of which one fetch failed: the
\* mapping has one entry less than the days asked.
C9_Witness ==
    \E c \in Conns :
        /\ pc[c] = "send"
        /\ api = "plain"
        /\ days[c] = MaxBatch
        /\ Len(rates[c]) = MaxBatch - 1

\* C10: no mapping extract_rates builds holds, under any date, a currency
\* that is not among the requested ones.
C10_OnlyWantedCurrencies ==
    \A c \in Conns : \A i \in 1..Len(rates[c]) :
        \A j \in 1..Len(rates[c][i][2]) : InList(rates[c][i][2][j][1], currencies)

\* C10 witness: a record with three currencies projected on the one wanted.
C10_Witness ==
    \E c \in Conns :
        /\ currencies = << "GBP" >>
        /\ api = "plain"
        /\ rates[c] # <<>>
        /\ \A i \in 1..Len(rates[c]) : rates[c][i][2] = << << "GBP", 500 >> >>

\* the parameters of the two commands `exchange` and `exchange 1`
OneDayParams == { Tail(Split(ExchangeWord)), Tail(Split(ExchangeLine(1))) }

\* C11: `exchange` and `exchange 1` behave alike: either starts one fetch,
\* for today, with days = 1; from there the response is the same function of
\* what the remote answers, it is the one message sent, and one audit line
\* is appended after it; a batch that raises ends both the same way.
C11_NoParamIsOneDay ==
    [][\A c \in Conns :
          /\ \A line \in {ExchangeWord, ExchangeLine(1)} :
                Read(c, line) =>
                    /\ pc'[c] = "gather"
                    /\ days'[c] = 1
                    /\ Len(tasks'[c]) = 1
                    /\ tasks'[c][1].state = "pending"
                    /\ RequestUrl(tasks'[c][1].date) = API_URL \o ExpectedDates[1]
                    /\ params'[c] \in OneDayParams
                    /\ log' = log
          /\ (pc[c] = "gather" /\ params[c] \in OneDayParams /\ pc'[c] # "gather") =>
                \/ /\ pc'[c] = "send"
                   /\ resp'[c] = ExpectedOneDay(api, currencies,
                                                Truthy(tasks[c][1].result))
                   /\ log' = log
                \/ /\ pc'[c] = "crashed"
                   /\ tasks[c][1].state = "raised"
                   /\ log' = log
          /\ (pc[c] = "send" /\ params[c] \in OneDayParams /\ pc'[c] # "send") =>
                \/ pc'[c] = "log" /\ sent'[c] = << resp[c] >> /\ log' = log
                \/ pc'[c] = "closed" /\ sent'[c] = <<>> /\ log' = log
          /\ (pc[c] = "log" /\ params[c] \in OneDayParams /\ pc'[c] # "log") =>
                /\ pc'[c] = "read"
                /\ Len(log') = Len(log) + 1
                /\ sent'[c] = sent[c]
      ]_vars

\* C11 witness: one connection sent `exchange`, the other `exchange 1`; the
\* remote answered both, and both got the same message.
C11_Witness ==
    \E c, d \in Conns :
        /\ params[c] = Tail(Split(ExchangeWord))
        /\ params[d] = Tail(Split(ExchangeLine(1)))
        /\ pc[c] = "log"
        /\ pc[d] = "log"
        /\ sent[c] = << ExpectedOneDay(api, currencies, TRUE) >>
        /\ sent[d] = sent[c]

\* the batch of connection c has a fetch that has not settled
Blocked(c) ==
    /\ pc[c] = "gather"
    /\ \E i \in 1..Len(tasks[c]) : tasks[c][i].state = "pending"

\* C12: connections are handled concurrently: while the batch of connection
\* a has a fetch that has not settled, the handler of another connection b
\* that waits for a line is not held back; a line of b is read and b's
\* command goes through its steps, answer included, with a still blocked
\* and its batch untouched.
C12_OthersNotBlocked ==
    [][\A a \in Conns : \A b \in Conns \ {a} :
          Blocked(a) =>
              /\ pc[b] = "read" => AtRead(b)
              /\ \A line \in Lines :
                    Read(b, line) => (tasks'[a] = tasks[a] /\ pc'[a] = "gather")
              /\ pc'[b] # pc[b] => (tasks'[a] = tasks[a] /\ pc'[a] = "gather")
              /\ (pc[b] = "send" /\ pc'[b] \in {"log", "read"}) =>
                    sent'[b] = << resp[b] >>
      ]_vars

\* C12 witness: no fetch of connection a's batch has settled, and b has the
\* response to its own `exchange 1`.
C12_Witness ==
    \E a \in Conns : \E b \in Conns \ {a} :
        /\ Blocked(a)
        /\ \A i \in 1..Len(tasks[a]) : tasks[a][i].state = "pending"
        /\ pc[b] = "log"
        /\ days[b] = 1
        /\ sent[b] = << ExpectedOneDay(api, currencies, TRUE) >>

\* the number of fetches of c's batch that gave a record
Succeeded(c) == Cardinality({i \in 1..Len(tasks[c]) : Truthy(tasks[c][i].result)})

\* C13: whatever fetches of a batch fail, the command ends in one response:
\* the await of the batch is left only towards the send, the connection
\* still registered; the response is not the error text and has a date
\* block for no more dates than fetches succeeded, each under the date of a
\* record that a fetch returned; that response is the one message sent.
C13_FailuresOnlyShortenResponse ==
    [][\A c \in Conns :
          /\ pc[c] = "gather" =>
                /\ pc'[c] \in {"gather", "send"}
                /\ c \in clients'
                /\ pc'[c] = "send" =>
                      /\ resp'[c] # ErrorText
                      /\ resp'[c] = Response(rates'[c])
                      /\ Len(rates'[c]) <= Succeeded(c)
                      /\ \A k \in DictKeys(rates'[c]) :
                            \E i \in 1..Len(tasks[c]) :
                                /\ Truthy(tasks[c][i].result)
                                /\ tasks[c][i].result.date = k
                      /\ Succeeded(c) = 0 => resp'[c] = ""
          /\ (pc[c] = "send" /\ ~TooManyDays(days[c]) /\ pc'[c] = "log") =>
                sent'[c] = << resp[c] >>
      ]_vars

\* C14: started with --days over 10 the program prints the error text and
\* ends: the one-shot batch is never started, nothing else is printed, and
\* the server never starts, so that no connection is ever taken.
C14_TooManyDaysAtStart ==
    argdays > MaxDays =>
        /\ main \in {"start", "exit"}
        /\ batch = <<>>
        /\ stdout = IF main = "exit" THEN << ErrorText >> ELSE <<>>
        /\ clients = {}
        /\ \A c \in Conns : pc[c] = "idle" /\ tasks[c] = <<>> /\ sent[c] = <<>>
        /\ log = <<>>

\* C14 witness: the program has ended on --days 11 with the error printed.
C14_Witness ==
    /\ argdays = MaxDays + 1
    /\ main = "exit"
    /\ stdout = << ErrorText >>

\* the fetches of c's batch that gave a record
Present(c) == {i \in 1..Len(tasks[c]) : Truthy(tasks[c][i].result)}

\* the (key, value) pairs of a mapping, and the value under a key
Pairs(d) == {d[i] : i \in 1..Len(d)}
ValueAt(d, k) == d[CHOOSE i \in 1..Len(d) : d[i][1] = k][2]

Greatest(S) == CHOOSE x \in S : \A y \in S : y <= x

\* the (currency, saleRate) pairs of a record whose currency is wanted
WantedPairs(record, wanted) ==
    {<< record.exchangeRate[j].currency, record.exchangeRate[j].saleRate >> :
        j \in {n \in 1..Len(record.exchangeRate) :
                  \E w \in 1..Len(wanted) : wanted[w] = record.exchangeRate[n].currency}}

\* of those pairs, the last one of each currency
LastWantedPairs(record, wanted) ==
    {p \in WantedPairs(record, wanted) :
        LET at == {n \in 1..Len(record.exchangeRate) :
                      record.exchangeRate[n].currency = p[1]}
        IN  record.exchangeRate[Greatest(at)].saleRate = p[2]}

\* C15 as stated: the mapping has the dates of the present records as its
\* keys, and for each present record the value under the record's date is
\* exactly the set of the record's wanted (currency, saleRate) pairs; no
\* present record gives the empty mapping.
C15_ProjectionOfEachRecord ==
    [][\A c \in Conns :
          (pc[c] = "gather" /\ pc'[c] = "send") =>
              /\ DictKeys(rates'[c]) = {tasks[c][i].result.date : i \in Present(c)}
              /\ \A i \in Present(c) :
                    Pairs(ValueAt(rates'[c], tasks[c][i].result.date))
                        = WantedPairs(tasks[c][i].result, currencies)
              /\ Present(c) = {} => rates'[c] = <<>>
      ]_vars

\* C15: extract_rates is the projection in which the last one wins: the
\* keys are the dates of the present records, each once; the value under a
\* date is taken from the last present record with that date and holds, for
\* each wanted currency of that record, once, the saleRate of its last
\* occurrence in the record; no present record gives the empty mapping.
C15_ProjectionLastWins ==
    [][\A c \in Conns :
          (pc[c] = "gather" /\ pc'[c] = "send") =>
              /\ DictKeys(rates'[c]) = {tasks[c][i].result.date : i \in Present(c)}
              /\ Len(rates'[c]) = Cardinality(DictKeys(rates'[c]))
              /\ \A k \in DictKeys(rates'[c]) :
                    LET last == Greatest({i \in Present(c) : tasks[c][i].result.date = k})
                        value == ValueAt(rates'[c], k)
                    IN  /\ Pairs(value) = LastWantedPairs(tasks[c][last].result, currencies)
                        /\ Len(value) = Cardinality(DictKeys(value))
              /\ Present(c) = {} => rates'[c] = <<>>
      ]_vars

\* C15 witness: two records came under one date, the later one with USD
\* twice: the mapping has that date once, with the last USD rate.
C15_Witness ==
    \E c \in Conns :
        /\ pc[c] = "send"
        /\ currencies = << "USD", "EUR" >>
        /\ rates[c] = << << "01.03.2024", << << "USD", 400 >>, << "EUR", 421 >> >> >> >>

\* the place, in the batch of c, of the first fetch that gave a record of date k
FirstWith(c, k) ==
    CHOOSE i \in Present(c) :
        /\ tasks[c][i].result.date = k
        /\ \A j \in Present(c) : tasks[c][j].result.date = k => i <= j

\* C16: the results reach extract_rates in the order the dates were asked
\* for, today first, in whatever order the fetches settled: the date blocks
\* of the mapping, and so of the response, follow the order of the requests
\* their dates first came from; against a remote that echoes the requested
\* date they are the requested dates that succeeded, today first.
C16_BlocksInRequestOrder ==
    [][\A c \in Conns :
          (pc[c] = "gather" /\ pc'[c] = "send") =>
              /\ \A i \in 1..Len(tasks[c]) :
                    RequestUrl(tasks[c][i].date) = API_URL \o ExpectedDates[i]
              /\ \A p, q \in 1..Len(rates'[c]) :
                    p < q => FirstWith(c, rates'[c][p][1]) < FirstWith(c, rates'[c][q][1])
              /\ api = "plain" =>
                    \A p \in 1..Len(rates'[c]) :
                        rates'[c][p][1] =
                            ExpectedDates[CHOOSE i \in Present(c) :
                                 Cardinality({j \in Present(c) : j <= i}) = p]
              /\ resp'[c] = Response(rates'[c])
      ]_vars

\* C16 witness: of a batch of two, the fetch of the day before settled
\* first, the fetch of today is still pending.
C16_Witness ==
    \E c \in Conns :
        /\ pc[c] = "gather"
        /\ Len(tasks[c]) >= 2
        /\ tasks[c][1].state = "pending"
        /\ tasks[c][2].state = "returned"
        /\ Truthy(tasks[c][2].result)

\* C17: the registry holds exactly the connections whose handler has
\* started and not ended: a connection is in it from its connect, before a
\* line of it is read, until its handler ends by the client's close, a
\* transport error or an exception of a command, and not after.
C17_RegistryIsRunningHandlers ==
    clients = {c \in Conns : pc[c] \in Running}

\* C17 witness: a handler was ended by an exception and one by the close of
\* its client: neither connection is left in the registry.
C17_Witness ==
    \E c \in Conns : \E d \in Conns \ {c} :
        /\ pc[c] = "crashed"
        /\ pc[d] = "closed"
        /\ clients = {}

\* C18: under fair scheduling, with every fetch settling in the end, a
\* command whose batch has started gets its response and its handler comes
\* back to reading the next line, unless the client has left by the send.
C18_CommandAnswered ==
    \A c \in Conns : (pc[c] = "gather") ~> (pc[c] = "read" \/ pc[c] = "closed")

====
